---- MODULE Spec2Model ----
(***************************************************************************)
(* A model of the werewolf host (src/src/server.rs), its clients           *)
(* (src/src/client.rs) and the messages between them (src/src/comm.rs).    *)
(*                                                                         *)
(* The host is one sequential thread: pc is its position.  Every           *)
(* connection c has two FIFO byte streams, stc[c] (host to client) and     *)
(* cts[c] (client to host).  Player::send writes a message and then blocks *)
(* reading the reply: the write ends a host step (awaiting = c) and the    *)
(* read opens the next host step (Ready, Resp, TakeReply).                 *)
(***************************************************************************)
EXTENDS Naturals, Sequences, FiniteSets

\* Number of clients that ever try to connect.
MaxClients == 3

\* The names a user may type at the name prompt.
Names == {"a", "b"}

Conns == 1..MaxClients

VARIABLES
    pc,            \* server: position of the host thread
    panic,         \* server: "none", or why the host thread panicked
    after,         \* server: where send_all returns to
    bmsg,          \* server: the message send_all is sending
    bi,            \* server: send_all's position in players.values()
    awaiting,      \* server: connection on which the host blocks reading (0: none)
    players,       \* Game.players: PlayerId -> [name, conn, dead, role]
    order,         \* iteration order of the players HashMap
    next_id,       \* Game.next_id
    cur,           \* the Player built by Player::join, before it is inserted
    wolf_index,    \* assign_roles: the index drawn
    ai,            \* assign_roles: loop position
    assigned,      \* number of completed assign_roles calls
    kill_names,    \* play_night: names offered to the wolf
    killed_name,   \* play_night's return value
    living,        \* play_day: ids of the living players, in iteration order
    votes,         \* play_day: voter name -> index voted against
    vi,            \* play_day: loop position in living
    voted_index,   \* play_day: index chosen by max_by_key
    num_votes,     \* play_day: its count
    winner,        \* play_day's return value ("None", "Wolf", "Village")
    sent,          \* the writes <<connection, message>> of the current iteration
                   \* of Game::play's loop, in order
    logging,       \* whether the writes are recorded in sent: fixed by the
                   \* specification, never changed
    backlog,       \* connections not yet taken from listener.incoming()
    stc,           \* per connection: messages written by the host, unread
    cts,           \* per connection: messages written by the client, unread
    closed,        \* per connection: the client's end is closed
    cstate,        \* client: position ("init", "named", "new", "play", ...)
    cname,         \* client Player.name
    cid,           \* client Player.id (-1 shown as MaxClients: unset)
    crole,         \* client Player.role
    cdead,         \* client Player.dead
    cplayers,      \* client Session.players
    gotRoster,     \* per connection: the Players lists received
    gotJoins,      \* per connection: the ids of the AnnounceJoin received
    gotRoles       \* per connection: the roles of the RoleAssigned received

hostVars == <<pc, panic, after, bmsg, bi, awaiting, players, order, next_id, cur,
              wolf_index, ai, assigned, kill_names, killed_name, living, votes, vi,
              voted_index, num_votes, winner, sent, logging>>
netVars == <<backlog, stc, cts, closed>>
clientVars == <<cstate, cname, cid, crole, cdead, cplayers, gotRoster, gotJoins,
                gotRoles>>
vars == <<hostVars, netVars, clientVars>>

----------------------------------------------------------------------------
\* comm.rs

\* PlayerId::new
PlayerId_new == 0

PlayerId_next_same(id) == id

\* PlayerId::next
PlayerId_next(id) == id + 1

\* A message of StcMessage or CtsMessage: its variant and its fields.
Msg(kind, arg) == [kind |-> kind, arg |-> arg]

NoMsg == Msg("", <<>>)
Received == Msg("Received", <<>>)

Connect(name) == Msg("Connect", name)
Vote(n) == Msg("Vote", n)
Kill(n) == Msg("Kill", n)

IdAssigned(id) == Msg("IdAssigned", id)
Players(list) == Msg("Players", list)
AnnounceJoin(id, name) == Msg("AnnounceJoin", <<id, name>>)
RoleAssigned(role) == Msg("RoleAssigned", role)
NightFalls == Msg("NightFalls", <<>>)
WolvesWake == Msg("WolvesWake", <<>>)
Died(name) == Msg("Died", name)
KillOptions(names) == Msg("KillOptions", names)
VoteOptions(names) == Msg("VoteOptions", names)
AnnounceVote(name, against) == Msg("AnnounceVote", <<name, against>>)
WaitingFor(name) == Msg("WaitingFor", name)
NoMajority == Msg("NoMajority", <<>>)
VotedOut(name) == Msg("VotedOut", name)
AnnounceWinner(w) == Msg("AnnounceWinner", w)

----------------------------------------------------------------------------
\* Helpers

\* The sequences without repetition over all of S: the orders in which a
\* HashMap with key set S may iterate.
Orders(S) ==
    {s \in [1..Cardinality(S) -> S] : \A i, j \in DOMAIN s : s[i] = s[j] => i = j}

\* Integer division as of usize.
Half(n) == n \div 2

NoPlayer == [id |-> 0, name |-> "", conn |-> 0, dead |-> FALSE, role |-> "None"]

----------------------------------------------------------------------------
\* server.rs: Player::send and Game::send_all

\* The host thread runs: it has not panicked, and the read it blocks on (if any)
\* has a message to return.
Ready == panic = "none" /\ (IF awaiting = 0 THEN TRUE ELSE cts[awaiting] # <<>>)

\* The message the pending read returns.
Resp == Head(cts[awaiting])

\* The pending read consumes its message.
TakeReply == IF awaiting = 0 THEN cts ELSE [cts EXCEPT ![awaiting] = Tail(@)]

\* The kinds of message Game::play's loop sends.
LoopKinds ==
    {"NightFalls", "WolvesWake", "KillOptions", "Died", "WaitingFor", "VoteOptions",
     "AnnounceVote", "NoMajority", "VotedOut", "AnnounceWinner"}

\* The writes of the current iteration of Game::play's loop after message m is
\* written to connection c: an iteration starts with the first NightFalls of
\* play_night's first send_all.
written(c, m) ==
    IF ~logging THEN sent
    ELSE IF m.kind = "NightFalls" /\ ~(pc = "send_all" /\ bi <= Len(order))
    THEN << <<c, m>> >>
    ELSE IF m.kind \in LoopKinds THEN Append(sent, <<c, m>>)
    ELSE sent

send_nowait(c, m) ==
    /\ cts' = TakeReply
    /\ stc' = [stc EXCEPT ![c] = Append(@, m)]
    /\ awaiting' = 0
    /\ sent' = written(c, m)
    /\ logging' = logging

\* Player::send: serialize_into the stream, then block in deserialize_from.
send(c, m) ==
    /\ cts' = TakeReply
    /\ stc' = [stc EXCEPT ![c] = Append(@, m)]
    /\ awaiting' = c
    /\ sent' = written(c, m)
    /\ logging' = logging

\* A host step that ends without writing.
nosend ==
    /\ cts' = TakeReply
    /\ stc' = stc
    /\ awaiting' = 0
    /\ sent' = sent
    /\ logging' = logging

\* The host thread panics (unwrap, expect, panic!, index out of bounds).
Panic(why) ==
    /\ panic' = why
    /\ UNCHANGED <<pc, after, bmsg, bi, awaiting, players, order, next_id, cur,
                   wolf_index, ai, assigned, kill_names, killed_name, living, votes,
                   vi, voted_index, num_votes, winner, sent, logging>>
    /\ UNCHANGED <<netVars, clientVars>>

no_bcast == after' = "" /\ bmsg' = NoMsg /\ bi' = 0

\* Game::send_all(message), returning to l: the first player is sent the
\* message at once, send_all_step sends it to the others.
send_all(m, l) ==
    IF order = <<>>
    THEN pc' = l /\ no_bcast /\ nosend
    ELSE /\ pc' = "send_all"
         /\ after' = l
         /\ bmsg' = m
         /\ bi' = 2
         /\ send(players[order[1]].conn, m)

\* The host is at l: it has jumped there, or the send_all that returns to l
\* has sent to every player.
At(l) ==
    IF pc = "send_all" THEN bi > Len(order) /\ after = l ELSE pc = l

\* send_all: the next player of players.values() is sent the message.
send_all_step ==
    /\ pc = "send_all"
    /\ bi <= Len(order)
    /\ Ready
    /\ send(players[order[bi]].conn, bmsg)
    /\ bi' = bi + 1
    /\ UNCHANGED <<pc, panic, after, bmsg, players, order, next_id, cur, wolf_index,
                   ai, assigned, kill_names, killed_name, living, votes, vi,
                   voted_index, num_votes, winner>>
    /\ UNCHANGED <<backlog, closed, clientVars>>

\* deserialize_from(...).unwrap() on a stream whose peer has closed it.
read_eof ==
    /\ panic = "none"
    /\ awaiting # 0
    /\ cts[awaiting] = <<>>
    /\ closed[awaiting]
    /\ Panic("eof")

----------------------------------------------------------------------------
\* server.rs: run_server, Player::join, Game::add_player, Game::take_next_id

gameVars == <<wolf_index, ai, assigned, kill_names, killed_name, living, votes, vi,
              voted_index, num_votes, winner>>
joinVars == <<players, order, next_id, cur>>
bcastVars == <<after, bmsg, bi>>
nightVars == <<kill_names, killed_name>>
dayVars == <<living, votes, vi, voted_index, num_votes, winner>>

\* Game::take_next_id: the id returned, and the next_id it leaves.
take_next_id == [id |-> next_id, next_id |-> PlayerId_next(next_id)]

\* run_server: listener.incoming() yields a stream; Player::join starts and
\* blocks reading the stream.
run_server_accept ==
    /\ pc = "accept"
    /\ panic = "none"
    /\ backlog # <<>>
    /\ backlog' = Tail(backlog)
    /\ awaiting' = Head(backlog)
    /\ pc' = "join"
    /\ UNCHANGED <<panic, after, bmsg, bi, players, order, next_id, cur, gameVars,
                   sent, logging>>
    /\ UNCHANGED <<stc, cts, closed, clientVars>>

\* Player::join: the first message must be Connect(name); the player is built
\* with a fresh id and sent IdAssigned(id).
Player_join ==
    /\ pc = "join"
    /\ Ready
    /\ IF Resp.kind = "Connect"
       THEN LET t == take_next_id
                player == [id |-> t.id, name |-> Resp.arg, conn |-> awaiting,
                           dead |-> FALSE, role |-> "None"]
            IN /\ next_id' = t.next_id
               /\ cur' = player
               /\ send(player.conn, IdAssigned(player.id))
               /\ pc' = "add_player"
               /\ UNCHANGED <<panic, after, bmsg, bi, players, order, gameVars>>
               /\ UNCHANGED <<backlog, closed, clientVars>>
       ELSE Panic("join")

add_player_unannounced ==
    /\ pc = "add_player"
    /\ Ready
    /\ pc' = "add_player_tell"
    /\ nosend
    /\ UNCHANGED <<panic, bcastVars, players, order, next_id, cur, gameVars>>
    /\ UNCHANGED <<backlog, closed, clientVars>>

\* Game::add_player: the join is announced to the players of the game.
add_player_announce ==
    /\ pc = "add_player"
    /\ Ready
    /\ send_all(AnnounceJoin(cur.id, cur.name), "add_player_tell")
    /\ UNCHANGED <<panic, players, order, next_id, cur, gameVars>>
    /\ UNCHANGED <<backlog, closed, clientVars>>

roster_with_self ==
    [i \in 1..Len(order) |-> <<order[i], players[order[i]].name>>]
        \o <<(<<cur.id, cur.name>>)>>

\* The list add_player sends the new player: the (id, name) of every player
\* of the game, in iteration order.
roster == [i \in 1..Len(order) |-> <<order[i], players[order[i]].name>>]

\* Game::add_player: the new player is told the players of the game.
add_player_tell ==
    /\ At("add_player_tell")
    /\ Ready
    /\ send(cur.conn, Players(roster))
    /\ pc' = "add_player_insert"
    /\ no_bcast
    /\ UNCHANGED <<panic, players, order, next_id, cur, gameVars>>
    /\ UNCHANGED <<backlog, closed, clientVars>>

\* The players map after insert(player.id, player).
inserted(player) ==
    [id \in DOMAIN players \cup {player.id} |->
        IF id = player.id THEN player ELSE players[id]]

\* Game::add_player: the new player is inserted; the map may iterate in any
\* order afterwards.  Player::join returns and run_server asks the operator.
add_player_insert ==
    /\ pc = "add_player_insert"
    /\ Ready
    /\ players' = inserted(cur)
    /\ order' \in Orders(DOMAIN players')
    /\ cur' = NoPlayer
    /\ nosend
    /\ pc' = "ask_start"
    /\ UNCHANGED <<panic, after, bmsg, bi, next_id, gameVars>>
    /\ UNCHANGED <<backlog, closed, clientVars>>

\* run_server: the operator answers "Do you wish to start the game?".
run_server_ask(yes) ==
    /\ pc = "ask_start"
    /\ panic = "none"
    /\ pc' = IF yes THEN "assign_roles" ELSE "accept"
    /\ UNCHANGED <<panic, after, bmsg, bi, awaiting, players, order, next_id, cur,
                   gameVars, sent, logging>>
    /\ UNCHANGED <<netVars, clientVars>>

----------------------------------------------------------------------------
\* server.rs: Game::assign_roles

role_for_first(i, wolf) == IF i <= wolf THEN "Wolf" ELSE "Villager"

\* The role assign_roles gives the i-th player (from 0) of players.values_mut().
role_for(i, wolf) == IF i = wolf THEN "Wolf" ELSE "Villager"

\* players with the role of player id set.
with_role(id, role) == [players EXCEPT ![id].role = role]

\* players with player id dead.
with_dead(id) == [players EXCEPT ![id].dead = TRUE]

\* Game::assign_roles: wolf_index is drawn from 0..players.len(), and the first
\* player is given its role and sent it.
assign_roles ==
    /\ pc = "assign_roles"
    /\ Ready
    /\ IF Len(order) = 0
       THEN Panic("gen_range")
       ELSE \E w \in 0..(Len(order) - 1) :
              /\ wolf_index' = w
              /\ assigned' = assigned + 1
              /\ players' = with_role(order[1], role_for(0, w))
              /\ send(players[order[1]].conn, RoleAssigned(role_for(0, w)))
              /\ ai' = 1
              /\ pc' = "assign_loop"
              /\ UNCHANGED <<panic, bcastVars, order, next_id, cur, nightVars, dayVars>>
              /\ UNCHANGED <<backlog, closed, clientVars>>

\* Game::assign_roles: the next player is given its role and sent it.
assign_roles_loop ==
    /\ pc = "assign_loop"
    /\ ai < Len(order)
    /\ Ready
    /\ players' = with_role(order[ai + 1], role_for(ai, wolf_index))
    /\ send(players[order[ai + 1]].conn, RoleAssigned(role_for(ai, wolf_index)))
    /\ ai' = ai + 1
    /\ UNCHANGED <<pc, panic, bcastVars, order, next_id, cur, wolf_index, assigned,
                   nightVars, dayVars>>
    /\ UNCHANGED <<backlog, closed, clientVars>>

----------------------------------------------------------------------------
\* server.rs: Game::play_night

is_wolf(id) == players[id].role = "Wolf"

can_be_killed_any(id) == ~players[id].dead

\* The players the wolf can kill: not the wolf, and not dead.
can_be_killed(id) == ~is_wolf(id) /\ ~players[id].dead

is_living_any(id) == TRUE

\* The players that get a vote: those not dead.
is_living(id) == ~players[id].dead

names_of(ids) == [i \in 1..Len(ids) |-> players[ids[i]].name]

\* Game::play_night: after NightFalls, WolvesWake is sent to all.
play_night_wake ==
    /\ At("night_wake")
    /\ Ready
    /\ send_all(WolvesWake, "night_options")
    /\ UNCHANGED <<panic, joinVars, gameVars>>
    /\ UNCHANGED <<backlog, closed, clientVars>>

\* Game::play_night: the wolf is sent the names of the players it can kill.
play_night_options ==
    /\ At("night_options")
    /\ Ready
    /\ IF \E id \in DOMAIN players : players[id].role = "None"
       THEN Panic("No role given")
       ELSE IF SelectSeq(order, is_wolf) = <<>>
       THEN Panic("no wolf")
       ELSE LET wolf == Head(SelectSeq(order, is_wolf))
                names == names_of(SelectSeq(order, can_be_killed))
            IN /\ kill_names' = names
               /\ send(players[wolf].conn, KillOptions(names))
               /\ pc' = "night_kill"
               /\ no_bcast
               /\ UNCHANGED <<panic, joinVars, wolf_index, ai, assigned, killed_name,
                              dayVars>>
               /\ UNCHANGED <<backlog, closed, clientVars>>

\* Game::play_night: the wolf's answer must be Kill(num); the num-th player that
\* can be killed dies.  play_night returns its name and Game::play calls
\* play_day, which starts by sending Died to all.
play_night_kill ==
    /\ pc = "night_kill"
    /\ Ready
    /\ IF Resp.kind # "Kill"
       THEN Panic("Expected kill message")
       ELSE LET kill_num == Resp.arg
                targets == SelectSeq(order, can_be_killed)
            IN IF kill_num >= Len(targets) \/ kill_num >= Len(kill_names)
               THEN Panic("kill index")
               ELSE LET player_killed == targets[kill_num + 1]
                    IN IF players[player_killed].name # kill_names[kill_num + 1]
                       THEN Panic("Player name mismatch")
                       ELSE /\ players' = with_dead(player_killed)
                            /\ killed_name' = players[player_killed].name
                            /\ send_all(Died(players[player_killed].name), "day_living")
                            /\ UNCHANGED <<panic, order, next_id, cur, wolf_index, ai,
                                           assigned, kill_names, dayVars>>
                            /\ UNCHANGED <<backlog, closed, clientVars>>

----------------------------------------------------------------------------
\* server.rs: Game::play_day

NoVotes == [n \in {} |-> 0]

votes_insert_first(name, vote) ==
    [n \in DOMAIN votes \cup {name} |-> IF n \in DOMAIN votes THEN votes[n] ELSE vote]

\* votes.insert(name, vote)
votes_insert(name, vote) ==
    [n \in DOMAIN votes \cup {name} |-> IF n = name THEN vote ELSE votes[n]]

\* vote_counts: index voted against -> number of entries of votes naming it.
vote_counts(vs) ==
    [k \in {vs[n] : n \in DOMAIN vs} |-> Cardinality({n \in DOMAIN vs : vs[n] = k})]

max_by_key_any(counts) == DOMAIN counts

\* The keys max_by_key may return: those with the greatest count (which of
\* them depends on the iteration order of vote_counts).
max_by_key(counts) ==
    {k \in DOMAIN counts : \A j \in DOMAIN counts : counts[j] <= counts[k]}

has_majority_half(num, living_len) == num >= Half(living_len)

\* Whether the vote has a majority.
has_majority(num, living_len) == num > Half(living_len)

\* Game::play_day: after Died, the living players are collected and the first
\* of them is announced as the one waited for.
play_day_living ==
    /\ At("day_living")
    /\ Ready
    /\ LET l == SelectSeq(order, is_living)
       IN IF l = <<>>
          THEN Panic("max_by_key")
          ELSE /\ living' = l
               /\ votes' = NoVotes
               /\ vi' = 1
               /\ send_all(WaitingFor(players[l[1]].name), "day_ask")
               /\ UNCHANGED <<panic, joinVars, wolf_index, ai, assigned, nightVars,
                              voted_index, num_votes, winner>>
               /\ UNCHANGED <<backlog, closed, clientVars>>

\* Game::play_day: the player waited for is sent the names it can vote against.
play_day_ask ==
    /\ At("day_ask")
    /\ Ready
    /\ send(players[living[vi]].conn, VoteOptions(names_of(living)))
    /\ pc' = "day_vote"
    /\ no_bcast
    /\ UNCHANGED <<panic, joinVars, gameVars>>
    /\ UNCHANGED <<backlog, closed, clientVars>>

play_day_vote_silent ==
    /\ pc = "day_vote"
    /\ Ready
    /\ IF Resp.kind = "Vote"
       THEN /\ votes' = votes_insert(players[living[vi]].name, Resp.arg)
            /\ pc' = "day_next"
            /\ nosend
            /\ UNCHANGED <<panic, bcastVars, joinVars, wolf_index, ai, assigned,
                           nightVars, living, vi, voted_index, num_votes, winner>>
            /\ UNCHANGED <<backlog, closed, clientVars>>
       ELSE /\ pc' = "day_next"
            /\ nosend
            /\ UNCHANGED <<panic, bcastVars, joinVars, gameVars>>
            /\ UNCHANGED <<backlog, closed, clientVars>>

\* Game::play_day: a Vote is announced to all and recorded under the voter's
\* name; any other answer is only printed.
play_day_vote ==
    /\ pc = "day_vote"
    /\ Ready
    /\ IF Resp.kind = "Vote"
       THEN LET vote == Resp.arg
                name == players[living[vi]].name
            IN IF vote >= Len(living)
               THEN Panic("vote index")
               ELSE /\ votes' = votes_insert(name, vote)
                    /\ send_all(AnnounceVote(name, players[living[vote + 1]].name),
                                "day_next")
                    /\ UNCHANGED <<panic, joinVars, wolf_index, ai, assigned, nightVars,
                                   living, vi, voted_index, num_votes, winner>>
                    /\ UNCHANGED <<backlog, closed, clientVars>>
       ELSE /\ pc' = "day_next"
            /\ nosend
            /\ UNCHANGED <<panic, bcastVars, joinVars, gameVars>>
            /\ UNCHANGED <<backlog, closed, clientVars>>

\* Game::play_day: the next living player is waited for; after the last one
\* the votes are counted, and the player with the most votes is voted out if
\* more than half of the living players voted against it.
play_day_next ==
    /\ At("day_next")
    /\ Ready
    /\ IF vi < Len(living)
       THEN /\ vi' = vi + 1
            /\ send_all(WaitingFor(players[living[vi + 1]].name), "day_ask")
            /\ UNCHANGED <<panic, joinVars, wolf_index, ai, assigned, nightVars, living,
                           votes, voted_index, num_votes, winner>>
            /\ UNCHANGED <<backlog, closed, clientVars>>
       ELSE IF DOMAIN votes = {}
       THEN Panic("max_by_key")
       ELSE \E k \in max_by_key(vote_counts(votes)) :
              /\ voted_index' = k
              /\ num_votes' = vote_counts(votes)[k]
              /\ IF has_majority(vote_counts(votes)[k], Len(living))
                 THEN send_all(VotedOut(players[living[k + 1]].name), "day_kill")
                 ELSE send_all(NoMajority, "day_return")
              /\ UNCHANGED <<panic, joinVars, wolf_index, ai, assigned, nightVars,
                             living, votes, vi, winner>>
              /\ UNCHANGED <<backlog, closed, clientVars>>

winning_side_never(voted, living_len) == "None"

winning_side_parity_first(voted, living_len) ==
    IF living_len = 2 THEN "Wolf"
    ELSE IF is_wolf(voted) THEN "Village"
    ELSE "None"

\* The side that wins when player voted, one of living_len living players, is
\* voted out.
winning_side(voted, living_len) ==
    IF is_wolf(voted) THEN "Village"
    ELSE IF living_len = 2 THEN "Wolf"
    ELSE "None"

voted_player_after ==
    LET living_mut == SelectSeq(order, is_living)
    IN living_mut[((voted_index + 1) % Len(living_mut)) + 1]

voted_player_of_all == order[voted_index + 1]

\* The player play_day kills: the one at voted_index among the living players
\* collected again (living_mut).
voted_player == SelectSeq(order, is_living)[voted_index + 1]

\* Game::play_day: after VotedOut, the player voted out dies and the day
\* returns the winning side, if any.
play_day_kill ==
    /\ At("day_kill")
    /\ Ready
    /\ players' = with_dead(voted_player)
    /\ winner' = winning_side(voted_player, Len(SelectSeq(order, is_living)))
    /\ pc' = "day_return"
    /\ no_bcast
    /\ nosend
    /\ UNCHANGED <<panic, order, next_id, cur, wolf_index, ai, assigned, nightVars,
                   living, votes, vi, voted_index, num_votes>>
    /\ UNCHANGED <<backlog, closed, clientVars>>

----------------------------------------------------------------------------
\* server.rs: Game::play

\* The locals of play_night and play_day are dropped.
drop_locals ==
    /\ kill_names' = <<>>
    /\ killed_name' = ""
    /\ living' = <<>>
    /\ votes' = NoVotes
    /\ vi' = 0
    /\ voted_index' = 0
    /\ num_votes' = 0
    /\ winner' = "None"

play_no_break ==
    /\ Ready
    /\ IF pc = "assign_loop" THEN ai = Len(order)
       ELSE IF At("day_return") THEN TRUE ELSE At("game_over")
    /\ IF At("game_over")
       THEN /\ pc' = "done"
            /\ no_bcast
            /\ nosend
            /\ UNCHANGED <<panic, joinVars, gameVars>>
       ELSE IF At("day_return") /\ winner # "None"
       THEN /\ send_all(AnnounceWinner(winner), "night_wake")
            /\ UNCHANGED <<panic, joinVars, gameVars>>
       ELSE /\ send_all(NightFalls, "night_wake")
            /\ drop_locals
            /\ UNCHANGED <<panic, joinVars, wolf_index, ai, assigned>>
    /\ UNCHANGED <<backlog, closed, clientVars>>

\* Game::play: after assign_roles, and after every day without a winner,
\* play_night is called (it starts by sending NightFalls to all); after a day
\* with a winner AnnounceWinner is sent to all, and then the loop is left.
play ==
    /\ Ready
    /\ IF pc = "assign_loop" THEN ai = Len(order)
       ELSE IF At("day_return") THEN TRUE ELSE At("game_over")
    /\ IF At("game_over")
       THEN /\ pc' = "done"
            /\ no_bcast
            /\ nosend
            /\ UNCHANGED <<panic, joinVars, gameVars>>
       ELSE IF At("day_return") /\ winner # "None"
       THEN /\ send_all(AnnounceWinner(winner), "game_over")
            /\ UNCHANGED <<panic, joinVars, gameVars>>
       ELSE /\ send_all(NightFalls, "night_wake")
            /\ drop_locals
            /\ UNCHANGED <<panic, joinVars, wolf_index, ai, assigned>>
    /\ UNCHANGED <<backlog, closed, clientVars>>

----------------------------------------------------------------------------
\* client.rs

\* map.insert(k, v)
map_insert(map, k, v) ==
    [x \in DOMAIN map \cup {k} |-> IF x = k THEN v ELSE map[x]]

\* map.extend(list) for a list of (key, value) pairs
RECURSIVE map_extend(_, _)
map_extend(map, list) ==
    IF list = <<>> THEN map
    ELSE map_extend(map_insert(map, Head(list)[1], Head(list)[2]), Tail(list))

NoMap == [x \in {} |-> ""]

\* Session::send and client Player::send: the message is written to the host.
client_send(c, m) == cts' = [cts EXCEPT ![c] = Append(@, m)]

\* Session::new: the client connects to the host.  (Connections are numbered
\* in the order in which they are made.)
Session_new(c) ==
    /\ cstate[c] = "init"
    /\ IF c = 1 THEN TRUE ELSE cstate[c - 1] # "init"
    /\ backlog' = Append(backlog, c)
    /\ cstate' = [cstate EXCEPT ![c] = "name"]
    /\ UNCHANGED <<hostVars, stc, cts, closed>>
    /\ UNCHANGED <<cname, cid, crole, cdead, cplayers, gotRoster, gotJoins, gotRoles>>

\* A name that no client of Conns enters.
OtherName == "c"

\* input_name: the names the user of client c may enter.  Names are only ever
\* compared with each other, so the first client's name is fixed.
input_name(c) ==
    IF c = 1 THEN {"a"} ELSE IF c \in Conns THEN Names ELSE Names \cup {OtherName}

\* client Player::new: the user enters a name, which is sent as Connect(name).
Player_new_connect(c, name) ==
    /\ cstate[c] = "name"
    /\ name \in input_name(c)
    /\ cname' = [cname EXCEPT ![c] = name]
    /\ client_send(c, Connect(name))
    /\ cstate' = [cstate EXCEPT ![c] = "new"]
    /\ UNCHANGED <<hostVars, backlog, stc, closed>>
    /\ UNCHANGED <<cid, crole, cdead, cplayers, gotRoster, gotJoins, gotRoles>>

\* client Player::new: the host's answer must be IdAssigned(id), which is
\* acknowledged; anything else panics.
Player_new_id(c) ==
    /\ cstate[c] = "new"
    /\ stc[c] # <<>>
    /\ stc' = [stc EXCEPT ![c] = Tail(@)]
    /\ IF Head(stc[c]).kind = "IdAssigned"
       THEN /\ cid' = [cid EXCEPT ![c] = Head(stc[c]).arg]
            /\ client_send(c, Received)
            /\ cstate' = [cstate EXCEPT ![c] = "play"]
            /\ UNCHANGED closed
       ELSE /\ cstate' = [cstate EXCEPT ![c] = "panicked"]
            /\ closed' = [closed EXCEPT ![c] = TRUE]
            /\ UNCHANGED <<cid, cts>>
    /\ UNCHANGED <<hostVars, backlog>>
    /\ UNCHANGED <<cname, crole, cdead, cplayers, gotRoster, gotJoins, gotRoles>>

\* show_menu: the indices the user can choose among opts.
show_menu(opts) == 0..(Len(opts) - 1)

\* The kinds handle_message answers with Received (send_ack).
AckedKinds ==
    {"WolvesWake", "NightFalls", "Died", "AnnounceVote", "NoMajority", "VotedOut",
     "RoleAssigned", "WaitingFor", "AnnounceJoin", "Players"}

\* What handle_message writes to the host for message m when the user chooses
\* n at the menu: a sequence of messages.
reply_to(m, n) ==
    IF m.kind \in AckedKinds THEN <<Received>>
    ELSE IF m.kind = "VoteOptions" THEN <<Vote(n)>>
    ELSE IF m.kind = "KillOptions" THEN <<Kill(n)>>
    ELSE <<>>

\* client Player::play and handle_message: the next message from the host is
\* read and handled.
handle_message(c) ==
    /\ cstate[c] = "play"
    /\ stc[c] # <<>>
    /\ stc' = [stc EXCEPT ![c] = Tail(@)]
    /\ LET m == Head(stc[c])
       IN /\ IF m.kind \in {"VoteOptions", "KillOptions"}
             THEN IF show_menu(m.arg) = {}
                  THEN /\ cstate' = [cstate EXCEPT ![c] = "menu"]
                       /\ UNCHANGED <<cts, closed>>
                  ELSE /\ \E n \in show_menu(m.arg) : cts' = [cts EXCEPT ![c] = @ \o reply_to(m, n)]
                       /\ UNCHANGED <<cstate, closed>>
             ELSE IF m.kind = "AnnounceWinner"
             THEN /\ cstate' = [cstate EXCEPT ![c] = "exited"]
                  /\ closed' = [closed EXCEPT ![c] = TRUE]
                  /\ cts' = [cts EXCEPT ![c] = @ \o reply_to(m, 0)]
             ELSE /\ cts' = [cts EXCEPT ![c] = @ \o reply_to(m, 0)]
                  /\ UNCHANGED <<cstate, closed>>
          /\ cdead' = IF m.kind \in {"Died", "VotedOut"} /\ m.arg = cname[c]
                      THEN [cdead EXCEPT ![c] = TRUE] ELSE cdead
          /\ crole' = IF m.kind = "RoleAssigned"
                      THEN [crole EXCEPT ![c] = m.arg] ELSE crole
          /\ cplayers' = IF m.kind = "AnnounceJoin"
                         THEN [cplayers EXCEPT ![c] = map_insert(@, m.arg[1], m.arg[2])]
                         ELSE IF m.kind = "Players"
                         THEN [cplayers EXCEPT ![c] = map_extend(@, m.arg)]
                         ELSE cplayers
          /\ gotJoins' = IF m.kind = "AnnounceJoin"
                         THEN [gotJoins EXCEPT ![c] = Append(@, m.arg[1])] ELSE gotJoins
          /\ gotRoster' = IF m.kind = "Players"
                          THEN [gotRoster EXCEPT ![c] =
                                   Append(@, {m.arg[i] : i \in DOMAIN m.arg})]
                          ELSE gotRoster
          /\ gotRoles' = IF m.kind = "RoleAssigned"
                         THEN [gotRoles EXCEPT ![c] = Append(@, m.arg)] ELSE gotRoles
    /\ UNCHANGED <<hostVars, backlog, cname, cid>>

----------------------------------------------------------------------------
\* The system

\* The state after Game::new and the bind of the listener, with the clients
\* of the connections C not started yet.
InitOn(C) ==
    /\ pc = "accept"
    /\ panic = "none"
    /\ after = ""
    /\ bmsg = NoMsg
    /\ bi = 0
    /\ awaiting = 0
    /\ players = [id \in {} |-> NoPlayer]
    /\ order = <<>>
    /\ next_id = PlayerId_new
    /\ cur = NoPlayer
    /\ wolf_index = 0
    /\ ai = 0
    /\ assigned = 0
    /\ kill_names = <<>>
    /\ killed_name = ""
    /\ living = <<>>
    /\ votes = NoVotes
    /\ vi = 0
    /\ voted_index = 0
    /\ num_votes = 0
    /\ winner = "None"
    /\ sent = <<>>
    /\ backlog = <<>>
    /\ stc = [c \in C |-> <<>>]
    /\ cts = [c \in C |-> <<>>]
    /\ closed = [c \in C |-> FALSE]
    /\ cstate = [c \in C |-> "init"]
    /\ cname = [c \in C |-> ""]
    /\ cid = [c \in C |-> 0]
    /\ crole = [c \in C |-> "None"]
    /\ cdead = [c \in C |-> FALSE]
    /\ cplayers = [c \in C |-> NoMap]
    /\ gotRoster = [c \in C |-> <<>>]
    /\ gotJoins = [c \in C |-> <<>>]
    /\ gotRoles = [c \in C |-> <<>>]

Init == InitOn(Conns) /\ logging = FALSE

Next ==
    \/ run_server_accept
    \/ Player_join
    \/ add_player_announce
    \/ add_player_tell
    \/ add_player_insert
    \/ \E yes \in BOOLEAN : run_server_ask(yes)
    \/ assign_roles
    \/ assign_roles_loop
    \/ play
    \/ play_night_wake
    \/ play_night_options
    \/ play_night_kill
    \/ play_day_living
    \/ play_day_ask
    \/ play_day_vote
    \/ play_day_next
    \/ play_day_kill
    \/ send_all_step
    \/ read_eof
    \/ \E c \in Conns : Session_new(c)
    \/ \E c \in Conns, name \in Names : Player_new_connect(c, name)
    \/ \E c \in Conns : Player_new_id(c)
    \/ \E c \in Conns : handle_message(c)

Spec == Init /\ [][Next]_vars

\* The same program, with the writes of Game::play's loop recorded in sent.
InitLog == InitOn(Conns) /\ logging = TRUE

SpecLog == InitLog /\ [][Next]_vars

----------------------------------------------------------------------------
\* A caller that invokes assign_roles once more on a game whose roles are
\* assigned (assign_roles itself has no guard against it).

MaxAssign == 2

assign_roles_again ==
    /\ pc = "assign_loop"
    /\ ai = Len(order)
    /\ assigned < MaxAssign
    /\ Ready
    /\ pc' = "assign_roles"
    /\ nosend
    /\ UNCHANGED <<panic, bcastVars, joinVars, gameVars>>
    /\ UNCHANGED <<backlog, closed, clientVars>>

SpecReassign == Init /\ [][Next \/ assign_roles_again]_vars

----------------------------------------------------------------------------
\* The game with one more client than Conns holds.

MoreConns == 1..(MaxClients + 1)

InitMore == InitOn(MoreConns) /\ logging = FALSE

NextMore ==
    \/ Next
    \/ \E c \in MoreConns \ Conns : Session_new(c)
    \/ \E c \in MoreConns \ Conns, name \in Names : Player_new_connect(c, name)
    \/ \E c \in MoreConns \ Conns : Player_new_id(c)
    \/ \E c \in MoreConns \ Conns : handle_message(c)

SpecMore == InitMore /\ [][NextMore]_vars

----------------------------------------------------------------------------
\* The game with a host thread that keeps running and clients that answer.

\* The steps of Game::play.
Game_play ==
    \/ assign_roles
    \/ assign_roles_loop
    \/ play
    \/ play_night_wake
    \/ play_night_options
    \/ play_night_kill
    \/ play_day_living
    \/ play_day_ask
    \/ play_day_vote
    \/ play_day_next
    \/ play_day_kill
    \/ send_all_step

\* The host thread is not stopped for ever while it can take a step of
\* Game::play, and a client that has a message to read reads and answers it.
SpecLive ==
    /\ Spec
    /\ WF_vars(Game_play)
    /\ \A c \in Conns : WF_vars(handle_message(c))

----------------------------------------------------------------------------
\* The game at a table of four: a day of three living players, whose names can
\* all differ.

TableSize == 4

TableConns == 1..TableSize

InitTable == InitOn(Conns \cup TableConns) /\ logging = FALSE

NextTable ==
    \/ Next
    \/ \E c \in TableConns \ Conns : Session_new(c)
    \/ \E c \in TableConns \ Conns : Player_new_connect(c, OtherName)
    \/ \E c \in TableConns \ Conns : Player_new_id(c)
    \/ \E c \in TableConns \ Conns : handle_message(c)

SpecTable == InitTable /\ [][NextTable]_vars

----------------------------------------------------------------------------
\* The game with one peer that does not follow client.rs: the host reads
\* whatever CtsMessage the stream delivers, or its end.

\* The indexes a peer may send: one that is in every list offered, and one that
\* is in none.
PeerIndexes == {0, MaxClients}

\* The values of CtsMessage a peer may write.
CtsMessages ==
    {Received, Connect("a")} \cup {Vote(n) : n \in PeerIndexes}
        \cup {Kill(n) : n \in PeerIndexes}

\* No peer but that of connection c has left client.rs.
only_fault(c) == \A d \in Conns \ {c} : cstate[d] \notin {"closed", "faulty"}

\* The peer of connection c ends, which closes the connection.
peer_close(c) ==
    /\ cstate[c] \in {"new", "play", "menu", "faulty"}
    /\ only_fault(c)
    /\ cstate' = [cstate EXCEPT ![c] = "closed"]
    /\ closed' = [closed EXCEPT ![c] = TRUE]
    /\ UNCHANGED <<hostVars, backlog, stc, cts>>
    /\ UNCHANGED <<cname, cid, crole, cdead, cplayers, gotRoster, gotJoins, gotRoles>>

\* The peer of connection c reads the host's message and answers it with m.
peer_answer(c, m) ==
    /\ cstate[c] \in {"play", "faulty"}
    /\ only_fault(c)
    /\ stc[c] # <<>>
    /\ stc' = [stc EXCEPT ![c] = Tail(@)]
    /\ client_send(c, m)
    /\ cstate' = [cstate EXCEPT ![c] = "faulty"]
    /\ UNCHANGED <<hostVars, backlog, closed>>
    /\ UNCHANGED <<cname, cid, crole, cdead, cplayers, gotRoster, gotJoins, gotRoles>>

SpecFaulty ==
    Init /\ [][\/ Next
               \/ \E c \in Conns : peer_close(c)
               \/ \E c \in Conns, m \in CtsMessages : peer_answer(c, m)]_vars

----------------------------------------------------------------------------
\* Properties

\* The players the host knows: those of the game, and the one joining.
Known ==
    {players[id] : id \in DOMAIN players} \cup (IF cur.conn = 0 THEN {} ELSE {cur})

Registered == {players[id] : id \in DOMAIN players}

\* The places in stc[c] of the messages of a kind that client c has been sent
\* and has not read yet.
Unread(c, kind) == {i \in DOMAIN stc[c] : stc[c][i].kind = kind}

Count(seq, x) == Cardinality({i \in DOMAIN seq : seq[i] = x})

\* C1: on every connection at most one message is in flight, in either
\* direction, and while a client has an unread message from the host the host
\* is blocked reading that client's stream: host-to-client and client-to-host
\* messages alternate, the client's Connect being the first.
C1_Alternation ==
    \A c \in Conns :
        /\ Len(stc[c]) + Len(cts[c]) <= 1
        /\ stc[c] # <<>> => awaiting = c

\* A client that has acknowledged its role is sent one more message.
C1_Witness ==
    \E c \in Conns :
        /\ gotRoles[c] # <<>>
        /\ Len(stc[c]) = 1
        /\ Head(stc[c]).kind = "NightFalls"

InfoKinds ==
    {"IdAssigned", "Players", "AnnounceJoin", "RoleAssigned", "NightFalls",
     "WolvesWake", "Died", "AnnounceVote", "WaitingFor", "NoMajority", "VotedOut",
     "AnnounceWinner"}

expected_reply(kind) ==
    IF kind \in InfoKinds THEN "Received"
    ELSE IF kind = "KillOptions" THEN "Kill"
    ELSE IF kind = "VoteOptions" THEN "Vote"
    ELSE ""

\* C2: whenever a client reads a message from the host, it writes exactly one
\* message back: Received for an informational kind, Kill for KillOptions,
\* Vote for VoteOptions.
C2_OneReplyPerMessage ==
    [][\A c \in Conns :
          (stc[c] # <<>> /\ stc'[c] = Tail(stc[c]))
          => /\ Len(cts'[c]) = Len(cts[c]) + 1
             /\ cts'[c][Len(cts'[c])].kind = expected_reply(Head(stc[c]).kind)]_vars

HostStopped == panic # "none" \/ pc = "done"

GameOverReached == IF pc = "send_all" THEN after = "game_over"
                   ELSE pc \in {"game_over", "done"}

\* C3: once the game is over, the host thread does not stop before every
\* registered player has been delivered AnnounceWinner (on which its client
\* leaves), and when it stops it has left the loop (it has not panicked).
C3_WinnerDeliveredToAll ==
    (GameOverReached /\ HostStopped)
    => /\ \A p \in Registered : cstate[p.conn] = "exited"
       /\ panic = "none"

RosterSent(c) == gotRoster[c] # <<>> \/ Unread(c, "Players") # {}

JoinSent(d, id) ==
    \/ \E i \in DOMAIN gotJoins[d] : gotJoins[d][i] = id
    \/ \E i \in Unread(d, "AnnounceJoin") : stc[d][i].arg[1] = id

\* The first steps of the handshake, in order: Connect(name), then the
\* identity and IdAssigned(identity), then Received, and only then the roster
\* to the newcomer or an AnnounceJoin about it.
HandshakeStart ==
    /\ \A p \in Known : cstate[p.conn] \in {"new", "play", "menu", "exited"}
                        /\ cname[p.conn] = p.name
    /\ \A c \in Conns :
          cstate[c] \in {"play", "menu", "exited"}
          => \E p \in Known : p.conn = c /\ p.id = cid[c]
    /\ \A p \in Known :
          (RosterSent(p.conn) \/ \E d \in Conns : JoinSent(d, p.id))
          => cstate[p.conn] # "new"

\* C4 as claimed: an AnnounceJoin about a newcomer is sent only after the
\* roster has been sent to the newcomer.
C4_RosterBeforeAnnounce ==
    /\ HandshakeStart
    /\ \A p \in Known :
          (\E d \in Conns : JoinSent(d, p.id)) => RosterSent(p.conn)

\* C4, amended: the roster is sent to the newcomer only after every player
\* registered before it has received (and acknowledged) the AnnounceJoin
\* about it.
C4_AnnounceBeforeRoster ==
    /\ HandshakeStart
    /\ \A p \in Known :
          RosterSent(p.conn)
          => \A q \in Registered :
                q.id < p.id => Count(gotJoins[q.conn], p.id) = 1

\* The second player has received its roster.
C4_Witness ==
    \E c \in Conns : cstate[c] = "play" /\ cid[c] = 1 /\ gotRoster[c] # <<>>

\* The number of AnnounceJoin about id that client c has been sent.
JoinCount(c, id) ==
    Count(gotJoins[c], id)
    + Cardinality({i \in Unread(c, "AnnounceJoin") : stc[c][i].arg[1] = id})

\* C5: a registered player has received exactly one roster, holding the
\* (id, name) of exactly the players registered before it; every player
\* registered before it has received exactly one AnnounceJoin about it, and it
\* has received none about itself (nor has any client about its own id).
C5_RosterAndJoins ==
    /\ \A id \in DOMAIN players :
          /\ gotRoster[players[id].conn]
                = << {<<k, players[k].name>> : k \in {j \in DOMAIN players : j < id}} >>
          /\ \A k \in DOMAIN players :
                Count(gotJoins[players[k].conn], id) = (IF k < id THEN 1 ELSE 0)
    /\ \A p \in Known, c \in Conns :
          JoinCount(c, p.id) <= (IF c = p.conn THEN 0 ELSE 1)

\* Three players are registered.
C5_Witness ==
    /\ Cardinality(Registered) = 3
    /\ \E p \in Registered : Cardinality(gotRoster[p.conn][1]) = 2

\* C6: the identities handed out are 0, 1, 2, ... in the order of the calls:
\* connections are served in order, the k-th gets identity k - 1; no two known
\* players share an identity, and next_id is greater than every identity of
\* the registry, and of the player joining.
C6_FreshIds ==
    /\ \A p \in Known : p.id < next_id /\ p.id + 1 = p.conn
    /\ \A id \in DOMAIN players : players[id].id = id
    /\ \A p \in Known, q \in Known : p.conn # q.conn => p.id # q.id
    /\ cur.conn # 0 => cur.id \notin DOMAIN players
    /\ next_id = Cardinality(Known)

\* Three identities have been handed out.
C6_Witness == next_id = 3 /\ Cardinality(DOMAIN players) = 3

\* assign_roles has run to its end.
RolesAssigned == assigned > 0 /\ (pc = "assign_loop" => ai = Len(order)) /\ pc # "assign_roles"

\* The roles client c has been sent.
RolesSent(c) ==
    LET unread == SelectSeq(stc[c], LAMBDA m : m.kind = "RoleAssigned")
    IN gotRoles[c] \o [i \in 1..Len(unread) |-> unread[i].arg]

C7_OneWolf ==
    RolesAssigned
    => /\ Cardinality({p \in Registered : p.role = "Wolf"}) = 1
       /\ \A p \in Registered : /\ p.role \in {"Wolf", "Villager"}
                                /\ RolesSent(p.conn) = <<p.role>>

C7_RolesFixed ==
    RolesAssigned => \A id \in DOMAIN players : players'[id].role = players[id].role

\* C7: once assign_roles has run, exactly one registered player is the Wolf
\* and every other one a Villager, each player has been sent exactly one
\* RoleAssigned, carrying its own role, and no step changes a role.
C7_RolesAssignedOnce == [](C7_OneWolf) /\ [][C7_RolesFixed]_vars

\* A game of three players with roles assigned is in its day.
C7_Witness ==
    /\ RolesAssigned
    /\ Cardinality(Registered) = 3
    /\ pc = "day_vote"

\* C8: assign_roles runs once, and a second run on a game whose roles are
\* assigned changes no player's role.
C8_AssignIdempotent ==
    [][(\A id \in DOMAIN players : players[id].role # "None")
         => \A id \in DOMAIN players : players'[id].role = players[id].role]_vars

\* Where the host is, a send_all counting as the place it returns to.
Loc == IF pc = "send_all" THEN after ELSE pc

Phase ==
    IF Loc \in {"accept", "join", "add_player", "add_player_tell",
                "add_player_insert", "ask_start"} THEN "AwaitingPlayers"
    ELSE IF Loc \in {"assign_roles", "assign_loop"} THEN "RoleAssignment"
    ELSE IF Loc \in {"night_wake", "night_options", "night_kill"} THEN "Night"
    ELSE IF Loc \in {"day_living", "day_ask", "day_vote", "day_next", "day_kill",
                     "day_return"} THEN "Day"
    ELSE "GameOver"

\* C9: the game leaves AwaitingPlayers only when at least two players are
\* registered.
C9_TwoPlayersToStart == Phase # "AwaitingPlayers" => Cardinality(DOMAIN players) >= 2

PhaseOrder ==
    {<<"AwaitingPlayers", "RoleAssignment">>, <<"RoleAssignment", "Night">>,
     <<"Night", "Day">>, <<"Day", "Night">>, <<"Day", "GameOver">>}

\* C10: the phase changes only along AwaitingPlayers, RoleAssignment, Night,
\* Day, then Night or GameOver; GameOver is entered only from a Day that has
\* returned a winner (and such a Day is left only for GameOver), and a Day
\* that has returned none is left only for a Night.
C10_PhaseOrder ==
    [][Phase' # Phase
         => /\ <<Phase, Phase'>> \in PhaseOrder
            /\ (Phase' = "GameOver" => winner # "None" /\ At("day_return"))
            /\ (Phase = "Day" => Phase' = (IF winner = "None" THEN "Night" ELSE "GameOver"))
            /\ (Phase = "Day" => At("day_return")) ]_vars

\* A second night: a day has ended without a winner.
C10_Witness ==
    /\ Phase = "Night"
    /\ \E p \in Registered : p.dead

----------------------------------------------------------------------------
\* The night and the day

\* The connections of the registered players.
PlayerConns == {players[id].conn : id \in DOMAIN players}

NumPlayers == Cardinality(DOMAIN players)

\* The writes lo .. lo + NumPlayers - 1 of the iteration are one broadcast of
\* a message of the kind: one write to every registered player.
BroadcastAt(lo, kind) ==
    /\ lo + NumPlayers - 1 <= Len(sent)
    /\ \A i \in lo..(lo + NumPlayers - 1) : sent[i][2].kind = kind
    /\ {sent[i][1] : i \in lo..(lo + NumPlayers - 1)} = PlayerConns

\* The number of living players that are not the Wolf and bear the name.
LivingVillagersNamed(name) ==
    Cardinality({id \in DOMAIN players :
                    ~players[id].dead /\ players[id].role # "Wolf"
                    /\ players[id].name = name})

\* The players that die in the step.
Dying == {id \in DOMAIN players : ~players[id].dead /\ players'[id].dead}

\* KillOptions is written only as the write that follows the broadcasts of
\* NightFalls and of WolvesWake, and to the Wolf.
C11_OfferedAfterBroadcasts ==
    \A k \in DOMAIN sent :
        sent[k][2].kind = "KillOptions"
        => /\ k = 2 * NumPlayers + 1
           /\ BroadcastAt(1, "NightFalls")
           /\ BroadcastAt(NumPlayers + 1, "WolvesWake")
           /\ \E id \in DOMAIN players :
                 players[id].conn = sent[k][1] /\ players[id].role = "Wolf"

\* The names offered are those of the living players that are not the Wolf,
\* each as often as living players bear it.
C11_OfferStep ==
    (Len(sent') = Len(sent) + 1 /\ sent'[Len(sent')][2].kind = "KillOptions")
    => LET offered == sent'[Len(sent')][2].arg
       IN /\ Len(offered)
                = Cardinality({id \in DOMAIN players :
                                  ~players[id].dead /\ players[id].role # "Wolf"})
          /\ \A name \in Names : Count(offered, name) = LivingVillagersNamed(name)

\* A night ends with the death of one player, a living Villager whose name
\* is the one chosen among those offered; no other step of a night changes
\* who is dead, and the Wolf stays alive.
C11_KillStep ==
    Phase = "Night"
    => IF Phase' = "Day"
       THEN /\ Cardinality(Dying) = 1
            /\ sent[Len(sent)][2].kind = "KillOptions"
            /\ \A id \in Dying :
                  /\ players[id].role = "Villager"
                  /\ Resp.kind = "Kill"
                  /\ Resp.arg < Len(sent[Len(sent)][2].arg)
                  /\ players[id].name = sent[Len(sent)][2].arg[Resp.arg + 1]
            /\ \A id \in DOMAIN players :
                  /\ players[id].dead => players'[id].dead
                  /\ players[id].role = "Wolf" => ~players'[id].dead
       ELSE \A id \in DOMAIN players : players'[id].dead = players[id].dead

\* C11: in every night the Wolf is offered, after NightFalls and WolvesWake
\* have been broadcast, exactly the living players that are not the Wolf; the
\* player that dies is one of those offered, alive before and a Villager; the
\* Wolf is never killed at night and exactly one player dies per night.
C11_NightKill ==
    [](C11_OfferedAfterBroadcasts) /\ [][C11_OfferStep /\ C11_KillStep]_vars

\* The second night of a game of three players has ended: the Wolf was
\* offered the one Villager left, which has died.
C11_Witness ==
    /\ Loc = "day_living"
    /\ NumPlayers = 3
    /\ Cardinality({id \in DOMAIN players : players[id].dead}) = 2
    /\ \E k \in DOMAIN sent : sent[k][2].kind = "KillOptions" /\ Len(sent[k][2].arg) = 1

\* The number of living players.
NumLiving == Cardinality({id \in DOMAIN players : ~players[id].dead})

\* The number of ballots recorded against the k-th (from 0) living player.
BallotsAgainst(k) == Cardinality({n \in DOMAIN votes : votes[n] = k})

\* The greatest number of ballots recorded against one player.
TopCount ==
    CHOOSE c \in 0..Len(living) :
        /\ \E k \in 0..(Len(living) - 1) : BallotsAgainst(k) = c
        /\ \A k \in 0..(Len(living) - 1) : BallotsAgainst(k) <= c

LastKind(log) == IF log = <<>> THEN "" ELSE log[Len(log)][2].kind

\* The step writes the first message of the verdict of a day's vote.
Tabulating ==
    /\ Len(sent') = Len(sent) + 1
    /\ LastKind(sent') \in {"VotedOut", "NoMajority"}
    /\ LastKind(sent) \notin {"VotedOut", "NoMajority"}

\* The verdict is VotedOut(a top candidate) if the top count exceeds half the
\* number of living players (rounded down), and NoMajority otherwise.
C12_Tabulate ==
    Tabulating
    => IF TopCount > NumLiving \div 2
       THEN \E k \in 0..(Len(living) - 1) :
               /\ BallotsAgainst(k) = TopCount
               /\ sent'[Len(sent')][2] = VotedOut(players[living[k + 1]].name)
       ELSE sent'[Len(sent')][2] = NoMajority

\* A player dies in a day only as the top candidate of a vote with a
\* majority, after VotedOut(its name) has been broadcast.
C12_Eliminate ==
    (Phase = "Day" /\ Dying # {})
    => \E k \in 0..(Len(living) - 1) :
          /\ BallotsAgainst(k) = TopCount
          /\ TopCount > NumLiving \div 2
          /\ Dying = {living[k + 1]}
          /\ Len(sent) >= NumPlayers
          /\ BroadcastAt(Len(sent) - NumPlayers + 1, "VotedOut")
          /\ sent[Len(sent)][2].arg = players[living[k + 1]].name

\* When a day returns, either VotedOut was broadcast and exactly one of the
\* players living at its start is dead, or NoMajority was broadcast and none
\* of them is.
C12_DayEnd ==
    At("day_return")
    => /\ Len(sent) >= NumPlayers
       /\ IF LastKind(sent) = "VotedOut"
          THEN Cardinality({i \in DOMAIN living : players[living[i]].dead}) = 1
          ELSE /\ BroadcastAt(Len(sent) - NumPlayers + 1, "NoMajority")
               /\ \A i \in DOMAIN living : ~players[living[i]].dead

\* C12: a day's vote eliminates the top candidate if and only if its count C
\* of ballots exceeds floor(N / 2), N being the number of players living at
\* the start of the day; otherwise NoMajority is broadcast and nobody's
\* liveness changes during the day.
C12_MajorityRule ==
    [](C12_DayEnd) /\ [][C12_Tabulate /\ C12_Eliminate]_vars

\* The second day of a game of three players has voted out its one living
\* player: the first day ended without a majority.
C12_Witness ==
    /\ At("day_return")
    /\ NumPlayers = 3
    /\ NumLiving = 0
    /\ LastKind(sent) = "VotedOut"

\* The Wolf is dead.
WolfDead == \E id \in DOMAIN players : players[id].role = "Wolf" /\ players[id].dead

\* Once the Wolf is dead the day has returned Village, and the host is at the
\* day's return or past it; Village is returned, and announced, only when the
\* Wolf is dead.
C13_VillageIffWolfDead ==
    /\ WolfDead => winner = "Village" /\ Loc \in {"day_return", "game_over", "done"}
    /\ winner = "Village" => WolfDead
    /\ \A k \in DOMAIN sent : sent[k][2] = AnnounceWinner("Village") => WolfDead

\* The step of a day in which a player dies returns Village exactly if that
\* player is the Wolf.
C13_EliminateStep ==
    (Phase = "Day" /\ Dying # {})
    => /\ At("day_return")'
       /\ winner' = "Village" <=> \E id \in Dying : players[id].role = "Wolf"

\* The day in which the Wolf died is left only for the announcement of
\* Village as the winner.
C13_LeaveStep ==
    (Phase = "Day" /\ Phase' # "Day" /\ WolfDead)
    => /\ Phase' = "GameOver"
       /\ LastKind(sent') = "AnnounceWinner"
       /\ sent'[Len(sent')][2].arg = "Village"

\* C13: whenever a day's vote eliminates the Wolf the day returns Village at
\* once, and the game goes to its end with no further night; Village is never
\* returned when the player eliminated is a Villager.
C13_WolfOutVillageWins ==
    [](C13_VillageIffWolfDead) /\ [][C13_EliminateStep /\ C13_LeaveStep]_vars

\* The Wolf of a game of three players was voted out on the first day, and
\* Village is being announced as the winner.
C13_Witness ==
    /\ Loc = "game_over"
    /\ winner = "Village"
    /\ NumPlayers = 3
    /\ NumLiving = 1
    /\ LastKind(sent) = "AnnounceWinner"

\* C14: whenever a day's vote eliminates a Villager and exactly two players
\* (the Wolf and one Villager) are alive after the elimination, the day
\* returns Wolf at once.
C14_TwoLeftWolfWins ==
    [][(/\ Phase = "Day"
        /\ Dying # {}
        /\ \A id \in Dying : players[id].role = "Villager"
        /\ NumLiving' = 2)
       => winner' = "Wolf"]_vars

\* The sum of the values of a function to numbers.
RECURSIVE Total(_)
Total(f) ==
    IF DOMAIN f = {} THEN 0
    ELSE LET k == CHOOSE x \in DOMAIN f : TRUE
         IN f[k] + Total([x \in DOMAIN f \ {k} |-> f[x]])

\* The places in the iteration's writes of the VoteOptions sent to c.
VoteRequests(c) == {k \in DOMAIN sent : sent[k][1] = c /\ sent[k][2].kind = "VoteOptions"}

\* During a day, once Died has been broadcast and the living players are
\* collected, the ballots counted are no more than the players living at its
\* start, nor than the requests to vote, of which every player living at the
\* day's start is sent at most one and any other player none.
C15_BallotsBounded ==
    (Phase = "Day" /\ Loc # "day_living")
    => /\ Total(vote_counts(votes)) <= Len(living)
       /\ Total(vote_counts(votes)) = Cardinality(DOMAIN votes)
       /\ Len(living) = NumLiving + (IF pc = "day_return" THEN 1 ELSE 0)
       /\ \A id \in DOMAIN players :
             Cardinality(VoteRequests(players[id].conn))
                <= (IF \E i \in DOMAIN living : living[i] = id THEN 1 ELSE 0)
       /\ Cardinality(DOMAIN votes)
             <= Cardinality({k \in DOMAIN sent : sent[k][2].kind = "VoteOptions"})

\* The host reads the answer to a VoteOptions, its last write.
VoteAnswered ==
    /\ LastKind(sent) = "VoteOptions"
    /\ awaiting = sent[Len(sent)][1]
    /\ cts[awaiting] # <<>>
    /\ cts'[awaiting] = Tail(cts[awaiting])

\* An answer Vote(n) to a VoteOptions is recorded under the name of the player
\* asked, where it replaces the ballot recorded under that name, if any; no
\* other ballot changes, and no other step of a day changes the ballots.
C15_RecordStep ==
    /\ VoteAnswered
       => \E id \in DOMAIN players :
             /\ players[id].conn = awaiting
             /\ votes' = IF Resp.kind = "Vote"
                         THEN [n \in DOMAIN votes \cup {players[id].name} |->
                                  IF n = players[id].name THEN Resp.arg ELSE votes[n]]
                         ELSE votes
    /\ (votes' # votes /\ Phase' = "Day") => VoteAnswered

\* C15: in every day the number of ballots tabulated never exceeds the number
\* of players living at the start of the day, and at most one ballot per voter
\* is counted: a later ballot replaces the earlier one.
C15_OneBallotPerVoter == [](C15_BallotsBounded) /\ [][C15_RecordStep]_vars

\* The two living players of a day have voted and their two ballots are
\* counted.
C15_Witness ==
    /\ At("day_next")
    /\ vi = Len(living)
    /\ Len(living) = 2
    /\ Total(vote_counts(votes)) = 2

\* The kinds of message that ask the player for a choice.
RequestKinds == {"VoteOptions", "KillOptions"}

\* No VoteOptions and no KillOptions is on its way to a player that is dead.
C16_NonePending ==
    \A id \in DOMAIN players :
        players[id].dead
        => \A i \in DOMAIN stc[players[id].conn] :
              stc[players[id].conn][i].kind \notin RequestKinds

\* A step that writes a VoteOptions or a KillOptions to a player writes it to
\* a player that is alive, and leaves it alive.
C16_RequestStep ==
    \A id \in DOMAIN players :
        LET c == players[id].conn
        IN (/\ stc'[c] # stc[c]
            /\ stc'[c] # <<>>
            /\ stc'[c][Len(stc'[c])].kind \in RequestKinds)
           => ~players[id].dead /\ ~players'[id].dead

\* C16: a player whose dead flag is set is never afterwards sent a
\* VoteOptions or a KillOptions: none is written to a dead player, and none is
\* on its way to a player when it dies.
C16_NoRequestToDead == [](C16_NonePending) /\ [][C16_RequestStep]_vars

\* In the second night of a game, with one player dead, the Wolf has been
\* sent KillOptions and has not read it yet.
C16_Witness ==
    /\ pc = "night_kill"
    /\ \E id \in DOMAIN players : players[id].dead
    /\ \E c \in Conns : stc[c] # <<>> /\ Head(stc[c]).kind = "KillOptions"

\* C17: an error caused by one peer (a closed connection, an answer of the
\* wrong kind, a Kill or Vote index outside the list offered) never aborts the
\* game for the other peers: the host thread does not panic during a night or
\* a day of a game of two or more players.
C17_PeerErrorsContained ==
    (Phase \in {"Night", "Day"} /\ NumPlayers >= 2) => panic = "none"

\* A player joins alive.
C18_JoinsAlive ==
    /\ ~cur.dead
    /\ \A id \in DOMAIN players' \ DOMAIN players : ~players'[id].dead

\* A dead player stays dead.
C18_StaysDead == \A id \in DOMAIN players : players[id].dead => players'[id].dead

\* The step is the wolf's kill of a night, or the kill of a player voted out.
NightKillStep == pc = "night_kill" /\ Phase' = "Day"
VoteOutStep == At("day_kill") /\ pc' = "day_return"

\* A player dies only by the kill of a night or by being voted out, and each
\* of these kills exactly one player, alive until then.
C18_DiesOnce ==
    /\ Dying # {} => NightKillStep \/ VoteOutStep
    /\ NightKillStep \/ VoteOutStep => Cardinality(Dying) = 1

\* C18: a player is alive when it joins and its dead flag is set at most
\* once, only by the kill of a night or by a day's vote; a dead player is
\* never alive again and is never chosen as a night's victim or voted out a
\* second time.
C18_AliveToDeadOnce == [][C18_JoinsAlive /\ C18_StaysDead /\ C18_DiesOnce]_vars

\* A game of three players has lost one to the night and one to the vote.
C18_Witness ==
    /\ At("day_return")
    /\ NumPlayers = 3
    /\ NumLiving = 1
    /\ winner = "Wolf"

\* C19: while the game runs (in its nights and days), the living Wolves and
\* the living Villagers are not both none: the game ends before every player
\* is dead.
C19_SomeoneAlive == Phase \in {"Night", "Day"} => NumLiving > 0

\* The place in the iteration's writes of the night's last write, KillOptions.
DayBase == 2 * NumPlayers + 1

\* The writes a day makes for one voter: WaitingFor to all, VoteOptions to the
\* voter, AnnounceVote to all.
VoterBlock == 2 * NumPlayers + 1

\* What the pos-th write of a day is, by the order claimed.
DayKindAt(pos) ==
    IF pos <= NumPlayers THEN "Died"
    ELSE LET q == pos - NumPlayers - 1
         IN IF q \div VoterBlock >= Len(living) THEN "Verdict"
            ELSE IF q % VoterBlock < NumPlayers THEN "WaitingFor"
            ELSE IF q % VoterBlock = NumPlayers THEN "VoteOptions"
            ELSE "AnnounceVote"

\* The voter that the pos-th write of a day is about.
VoterAt(pos) == living[((pos - NumPlayers - 1) \div VoterBlock) + 1]

\* The k-th write of the iteration is one of a broadcast: it goes to a
\* registered player that the broadcast has not written to before, and it
\* repeats the message of the writes before it in the broadcast.
InBroadcast(k) ==
    /\ sent[k][1] \in PlayerConns
    /\ \A j \in (k - NumPlayers + 1)..(k - 1) :
          (DayBase < j /\ DayKindAt(j - DayBase) = DayKindAt(k - DayBase))
          => sent[j][1] # sent[k][1] /\ sent[j][2] = sent[k][2]

\* The k-th write of the iteration is the one that the order of a day has at
\* its place: Died(the night's victim) to all; then for each living player in
\* turn WaitingFor(its name) to all, VoteOptions(the names of all the living
\* players) to it alone and AnnounceVote(its name, the name voted against) to
\* all; then the verdict.
DayWrite(k) ==
    IF k <= DayBase
    THEN sent[k][2].kind \in {"NightFalls", "WolvesWake", "KillOptions"}
    ELSE LET m == sent[k][2]
             kind == DayKindAt(k - DayBase)
         IN /\ kind = "Died" => m = Died(killed_name) /\ InBroadcast(k)
            /\ kind = "WaitingFor"
                  => /\ m = WaitingFor(players[VoterAt(k - DayBase)].name)
                     /\ InBroadcast(k)
            /\ kind = "VoteOptions"
                  => /\ sent[k][1] = players[VoterAt(k - DayBase)].conn
                     /\ m.kind = "VoteOptions"
                     /\ Len(m.arg) = Len(living)
                     /\ \A i \in DOMAIN living : m.arg[i] = players[living[i]].name
            /\ kind = "AnnounceVote"
                  => /\ m.kind = "AnnounceVote"
                     /\ m.arg[1] = players[VoterAt(k - DayBase)].name
                     /\ \E i \in DOMAIN living : m.arg[2] = players[living[i]].name
                     /\ InBroadcast(k)
            /\ kind = "Verdict"
                  => m.kind \in {"VotedOut", "NoMajority", "AnnounceWinner"}

\* Every write of an iteration is, when it is made, the one that the order of
\* a day has at its place.
C20_DayWrites == sent' # sent => DayWrite(Len(sent))'

\* The players a day asks are, each once, the players living at its start.
C20_VotersAreLiving ==
    Loc \in {"day_ask", "day_vote", "day_next", "day_kill"}
    => /\ Len(living) = NumLiving
       /\ {living[i] : i \in DOMAIN living} = {id \in DOMAIN players : ~players[id].dead}

\* C20: a day proceeds in this order: Died(victim) is broadcast first; then
\* for each player living at the start of the day, in turn, WaitingFor(that
\* player) is broadcast, that player alone is sent VoteOptions listing all the
\* players living at the start of the day, itself included, and its vote is
\* broadcast as AnnounceVote(voter, target) before the next voter is
\* addressed; the votes are tabulated only after every living player has been
\* visited.
C20_DayOrder == [](C20_VotersAreLiving) /\ [][C20_DayWrites]_vars

\* The first day of a game of three players has asked its two living players
\* and has broadcast that there is no majority.
C20_Witness ==
    /\ At("day_return")
    /\ NumPlayers = 3
    /\ Len(living) = 2
    /\ LastKind(sent) = "NoMajority"
    /\ Len(sent) = DayBase + NumPlayers + 2 * VoterBlock + NumPlayers

----------------------------------------------------------------------------
\* Broadcasts, ties, ballots and the end of the game

\* The writes a send_all has made so far are its message, once to each of the
\* first players of players.values(), one after another, and these are all the
\* registered players, living or dead, when it returns.
C21_WrittenSoFar ==
    (pc = "send_all" /\ bmsg.kind \in LoopKinds)
    => /\ Len(order) = NumPlayers
       /\ {order[i] : i \in DOMAIN order} = DOMAIN players
       /\ Len(sent) >= bi - 1
       /\ \A i \in 1..(bi - 1) :
             sent[Len(sent) - (bi - 1) + i] = <<players[order[i]].conn, bmsg>>

\* A send_all that has begun is not abandoned before its last write.
C21_NotAbandoned == (pc = "send_all" /\ bi <= Len(order)) => panic = "none"

\* C21: every broadcast (send_all) sends its message to every registered
\* player, living or dead, one after another and each exactly once.
C21_BroadcastToAll == C21_WrittenSoFar /\ C21_NotAbandoned

\* The places (from 0) in the living list of the players against whom more
\* than half of the living players have a ballot recorded.
Majority == {k \in 0..(Len(living) - 1) : BallotsAgainst(k) > Len(living) \div 2}

\* The places in the living list of the players with the greatest count.
Top == {k \in 0..(Len(living) - 1) : BallotsAgainst(k) = TopCount}

\* The day's votes are being counted: every living player has been asked.
Counting == Loc \in {"day_next", "day_kill", "day_return"} /\ vi = Len(living)

\* Candidates that share the greatest count have no majority, and at most one
\* candidate has one.
C22_TieIsNoMajority ==
    (Phase = "Day" /\ living # <<>>)
    => /\ Cardinality(Top) > 1 => TopCount <= Len(living) \div 2
       /\ Cardinality(Majority) <= 1

\* The verdict follows from the ballots: VotedOut(the one candidate with a
\* majority) if there is one, NoMajority if there is none.
C22_Verdict ==
    (Loc = "day_next" /\ Loc' \in {"day_kill", "day_return"})
    => IF Majority = {}
       THEN Loc' = "day_return" /\ bmsg' = NoMajority
       ELSE /\ Loc' = "day_kill"
            /\ voted_index' \in Majority
            /\ bmsg' = VotedOut(players[living[voted_index' + 1]].name)

\* The player eliminated follows from the ballots: nobody after NoMajority
\* and after a tie, the candidate with the majority after VotedOut.
C22_Eliminated ==
    (Phase = "Day" /\ Dying # {})
    => /\ Loc = "day_kill"
       /\ Cardinality(Top) = 1
       /\ Dying = {living[k + 1] : k \in Majority}

\* C22: the outcome of a day (whether a player is eliminated, and which) is a
\* function of the recorded ballots alone, whichever candidate max_by_key
\* returns among those with the greatest count: candidates that tie for the
\* greatest count have at most floor(N / 2) ballots each, so a tie yields
\* NoMajority.
C22_OutcomeOfBallots == [](C22_TieIsNoMajority) /\ [][C22_Verdict /\ C22_Eliminated]_vars

\* A day of three living players has ended without majority on a tie of one
\* ballot against each of them.
C22_Witness ==
    /\ At("day_return")
    /\ Len(living) = 3
    /\ \A k \in 0..2 : BallotsAgainst(k) = 1
    /\ bmsg = NoMajority
    /\ \A i \in DOMAIN living : ~players[living[i]].dead

\* From the collection of the living players of a day to the kill of the
\* player voted out, the players that are not dead, in the order of
\* players.values(), are the list collected: living_mut is living.
C23_SameList ==
    Loc \in {"day_ask", "day_vote", "day_next", "day_kill"}
    => living = SelectSeq(order, LAMBDA id : ~players[id].dead)

\* The player that dies in a day is the player at voted_index of living: the
\* one named in the VotedOut that every player has been sent, with ballots of
\* more than half of the living players against it.
C23_KillStep ==
    (Phase = "Day" /\ Dying # {})
    => /\ voted_index < Len(living)
       /\ Dying = {living[voted_index + 1]}
       /\ pc = "send_all"
       /\ bi > Len(order)
       /\ bmsg = VotedOut(players[living[voted_index + 1]].name)
       /\ BallotsAgainst(voted_index) > Len(living) \div 2

\* C23: the player whose dead flag is set by a day's vote is the player named
\* in the VotedOut broadcast, against whom the majority of the ballots was
\* recorded: the index into living (used for AnnounceVote and VotedOut) and
\* the index into the living players collected again for the kill denote the
\* same player.
C23_VotedOutIsKilled == [](C23_SameList) /\ [][C23_KillStep]_vars

\* Of three living players the second in the list has been voted out.
C23_Witness ==
    /\ pc = "day_return"
    /\ Len(living) = 3
    /\ voted_index = 1
    /\ players[living[2]].dead
    /\ ~players[living[1]].dead
    /\ ~players[living[3]].dead

\* C24: in every day, every living player that answered VoteOptions with a
\* Vote has exactly one ballot in the count: once the vote of the vi-th living
\* player is recorded (every player asked so far has answered with a Vote),
\* the counts of vote_counts add up to vi, whatever the names of the players.
C24_EveryVoteCounted ==
    (Loc = "day_next" /\ panic = "none") => Total(vote_counts(votes)) = vi

\* The number of living Villagers.
LivingVillagers ==
    Cardinality({id \in DOMAIN players :
                    ~players[id].dead /\ players[id].role = "Villager"})

\* A game of two or more players is in its nights and days.
Playing == Phase \in {"Night", "Day"} /\ NumPlayers >= 2

\* A night starts with a living Wolf and a living Villager for it to kill.
C25_NightHasVictim ==
    (Playing /\ Phase = "Night")
    => /\ LivingVillagers >= 1
       /\ \E id \in DOMAIN players : ~players[id].dead /\ players[id].role = "Wolf"

\* Every night ends with one living Villager fewer, and the number of living
\* Villagers never grows: there are at most as many nights as there were
\* Villagers when the roles were assigned.
C25_NightDecreases ==
    Playing
    => /\ LivingVillagers' <= LivingVillagers
       /\ (Phase = "Night" /\ Phase' = "Day") => LivingVillagers' = LivingVillagers - 1
       /\ Phase = "Night" => Phase' \in {"Night", "Day"}

\* C25: if every client answers every request with a reply of the expected
\* kind and a choice in range, a game started with at least two players
\* reaches GameOver, after at most as many nights as there were Villagers at
\* the role assignment: each night strictly decreases the number of living
\* Villagers.
C25_GameEnds ==
    /\ [](C25_NightHasVictim)
    /\ [][C25_NightDecreases]_vars
    /\ ((Phase = "RoleAssignment" /\ NumPlayers >= 2) ~> (Phase = "GameOver"))

\* A game of three players is over after two nights: the first day ended
\* without a majority, and both Villagers were killed by the Wolf.
C25_Witness ==
    /\ Phase = "GameOver"
    /\ NumPlayers = 3
    /\ LivingVillagers = 0
    /\ winner = "Village"

====
